---- MODULE Spec2Model ----
(***************************************************************************)
(* A model of the interactive Python agent of src/app/python_agent.py and  *)
(* of the agent endpoints of src/app/main.py.                              *)
(*                                                                         *)
(* The agent keeps a namespace (a dict handed to eval/exec), an in-memory  *)
(* history (a list of result dicts) and a durable history file.  Snippets  *)
(* of Python are modelled by what the interpreter does with them: whether  *)
(* the text compiles in 'eval' mode, whether it compiles in 'exec' mode,   *)
(* and the sequence of effects running it performs.                        *)
(***************************************************************************)
EXTENDS Integers, Sequences, FiniteSets, TLC

VARIABLES
    namespace,  \* self.namespace: name -> value, Unbound when the key is missing
    history,    \* self.history: the in-memory list of records
    file,       \* the durable file self.history_file
    clock,      \* the source of datetime.now(): one tick per execute call
    lastOp,     \* the facade call that ran last
    result,     \* what the last execute returned (NoRecord when it returned nothing)
    listing,    \* what the last get_history returned
    raised,     \* the exception that escaped the last call, Absent when none
    probe,      \* what the snippet of the last execute did (observer, not program state)
    closed,     \* whether cleanup has been called (observer, not program state)
    tasks,      \* the request handlers of main.py on the event loop, one coroutine each
    running,    \* the coroutine the event loop is running, 0 when it is between two
    target      \* whose StringIO sys.stdout and sys.stderr are, 0 for the process's own

vars == <<namespace, history, file, clock, lastOp, result, listing, raised, probe, closed,
          tasks, running, target>>

\* what the calls of one caller at a time say about themselves
caller == <<lastOp, result, listing, raised, probe, closed>>
\* the event loop and its handlers
loop == <<tasks, running, target>>

----------------------------------------------------------------------------
(* Bounds of the model *)

\* executes issued in one session
MaxExec == 3
\* executes issued in a session that starts on a long history
MaxCapExec == 2
\* request handlers the event loop holds at once
MaxTasks == 3
\* the explicit limit get_history is tried with, beside 0 and the default
MaxLimit == 1

----------------------------------------------------------------------------
(* Python values *)

\* Python's None in a record field, and a missing key in the namespace
Absent == "<None>"
Unbound == "<unbound>"

VNone == "None"
VInt1 == "int 1"
VInt2 == "int 2"
VMain == "str __main__"
VBuiltinsName == "str builtins"
VModSys == "module sys"
VBuiltins == "module builtins"

\* repr(value), as line 113 applies it
Repr(v) ==
    CASE v = VInt1 -> "1"
      [] v = VInt2 -> "2"
      [] v = VMain -> "'__main__'"
      [] v = VBuiltinsName -> "'builtins'"
      [] v = VModSys -> "<module 'sys' (built-in)>"
      [] v = VBuiltins -> "<module 'builtins' (built-in)>"
      [] OTHER -> "None"

Names == {"__name__", "__builtins__", "sys", "x"}

\* the limit get_history takes when the caller gives none
DefaultLimit == 50
\* the number of records _save_history writes
HistoryCap == 1000

----------------------------------------------------------------------------
(* Faults *)

NoFault == "<no fault>"
\* the exception classes that derive from Exception: line 129 catches them
ExceptionKinds == {"SyntaxError", "ZeroDivisionError", "NameError"}
\* the exception classes that derive from BaseException only: nothing catches them
BaseOnlyKinds == {"SystemExit"}

\* str(e) of the exceptions the interpreter itself raises: a name that is not
\* bound, a text that does not compile
Message(kind, name) ==
    CASE kind = "NameError" -> "name '" \o name \o "' is not defined"
      [] OTHER -> "invalid syntax (<string>, line 1)"

\* the error dict of a record; AbsentError stands for 'error': None
AbsentError == [type |-> Absent, message |-> Absent, traceback |-> Absent]
ErrorDict(kind, msg) ==
    [type |-> kind, message |-> msg,
     traceback |-> "Traceback (most recent call last): " \o kind \o ": " \o msg]

----------------------------------------------------------------------------
(* Snippets: the text, whether compile(text, mode='eval') and                *)
(* compile(text, mode='exec') accept it, and what running the text does.     *)

Op(op, a, b) == [op |-> op, a |-> a, b |-> b]

Snippets == {
    [code |-> "x = 1", expr |-> FALSE, stmt |-> TRUE,
     ops |-> <<Op("bind", "x", VInt1)>>],
    [code |-> "x", expr |-> TRUE, stmt |-> TRUE,
     ops |-> <<Op("read", "x", "")>>],
    [code |-> "1/0", expr |-> TRUE, stmt |-> TRUE,
     ops |-> <<Op("raise", "ZeroDivisionError", "division by zero")>>],
    [code |-> "print('a')", expr |-> TRUE, stmt |-> TRUE,
     ops |-> <<Op("print", "stdout", "a\n")>>],
    [code |-> "x = 2; print('a'); 1/0", expr |-> FALSE, stmt |-> TRUE,
     ops |-> <<Op("bind", "x", VInt2), Op("print", "stdout", "a\n"),
               Op("raise", "ZeroDivisionError", "division by zero")>>],
    [code |-> "[print('a'), eval('(')]", expr |-> TRUE, stmt |-> TRUE,
     ops |-> <<Op("print", "stdout", "a\n"),
               Op("raise", "SyntaxError", "'(' was never closed (<string>, line 1)")>>],
    [code |-> "", expr |-> FALSE, stmt |-> TRUE, ops |-> <<>>],
    [code |-> "x =", expr |-> FALSE, stmt |-> FALSE, ops |-> <<>>],
    [code |-> "print('e', file=sys.stderr)", expr |-> TRUE, stmt |-> TRUE,
     ops |-> <<Op("read", "sys", ""), Op("print", "stderr", "e\n")>>],
    [code |-> "raise SystemExit", expr |-> FALSE, stmt |-> TRUE,
     ops |-> <<Op("raise", "SystemExit", "")>>],
    [code |-> "del sys", expr |-> FALSE, stmt |-> TRUE,
     ops |-> <<Op("del", "sys", "")>>]
}

\* the snippet of a text
SnippetOf(code) == CHOOSE s \in Snippets : s.code = code

----------------------------------------------------------------------------
(* The interpreter: eval(code, namespace) and exec(code, namespace)          *)

\* the interpreter's state while a snippet runs under the redirected streams
Start(ns) ==
    [ns |-> ns, out |-> "", err |-> "", fault |-> NoFault, msg |-> "",
     val |-> VNone, runs |-> 0]

Fail(st, kind, name) == [st EXCEPT !.fault = kind, !.msg = Message(kind, name)]

\* a global name is looked up in the namespace, then in the builtins module,
\* which has a __name__ of its own
Lookup(ns, n) ==
    IF ns[n] # Unbound THEN ns[n]
    ELSE IF n = "__name__" /\ ns["__builtins__"] = VBuiltins THEN VBuiltinsName
    ELSE Unbound

\* one effect of a running snippet
Step(op, st) ==
    CASE op.op = "bind" -> [st EXCEPT !.ns[op.a] = op.b, !.val = VNone]
      [] op.op = "read" ->
            IF Lookup(st.ns, op.a) = Unbound THEN Fail(st, "NameError", op.a)
            ELSE [st EXCEPT !.val = Lookup(st.ns, op.a)]
      [] op.op = "del" ->
            IF st.ns[op.a] = Unbound THEN Fail(st, "NameError", op.a)
            ELSE [st EXCEPT !.ns[op.a] = Unbound, !.val = VNone]
      [] op.op = "print" ->
            IF op.a = "stdout" THEN [st EXCEPT !.out = @ \o op.b, !.val = VNone]
            ELSE [st EXCEPT !.err = @ \o op.b, !.val = VNone]
      [] OTHER -> [st EXCEPT !.fault = op.a, !.msg = op.b]

\* the effects in order, up to the first fault
RECURSIVE RunOps(_, _)
RunOps(ops, st) ==
    IF ops = <<>> \/ st.fault # NoFault THEN st
    ELSE RunOps(Tail(ops), Step(Head(ops), st))

\* eval and exec put __builtins__ into a globals dict that lacks it
EnsureBuiltins(st) ==
    IF st.ns["__builtins__"] = Unbound
    THEN [st EXCEPT !.ns["__builtins__"] = VBuiltins] ELSE st

\* eval(code, namespace): compile as an expression, then evaluate
Eval(s, st) ==
    IF ~s.expr THEN Fail(EnsureBuiltins(st), "SyntaxError", "")
    ELSE RunOps(s.ops, [EnsureBuiltins(st) EXCEPT !.runs = @ + 1])

\* exec that does not compile the text first: what does not compile runs as nothing
ExecNoCompile(s, st) ==
    [RunOps(s.ops, [EnsureBuiltins(st) EXCEPT !.runs = @ + 1, !.val = VNone])
        EXCEPT !.val = VNone]

\* exec(code, namespace): compile as statements, then run; the value is dropped
Exec(s, st) ==
    IF ~s.stmt THEN Fail(EnsureBuiltins(st), "SyntaxError", "")
    ELSE [RunOps(s.ops, [EnsureBuiltins(st) EXCEPT !.runs = @ + 1, !.val = VNone])
            EXCEPT !.val = VNone]

----------------------------------------------------------------------------
(* The history store *)

\* seq[start:] of Python, start negative, zero or positive
SliceFrom(seq, start) ==
    LET n == Len(seq)
        from == IF start < 0 THEN (IF n + start < 0 THEN 0 ELSE n + start)
                ELSE (IF start > n THEN n ELSE start)
    IN  SubSeq(seq, from + 1, n)

AbsentFile == [kind |-> "absent", recs |-> <<>>]
ArrayFile(recs) == [kind |-> "array", recs |-> recs]
\* a file whose text json.load rejects (a write that stopped half way)
GarbageFile == [kind |-> "garbage", recs |-> <<>>]

\* a file json.load accepts and that holds no array: an object such as {}
ObjectFile == [kind |-> "object", recs |-> <<>>]

\* self.history when json.load gave a dict: it has no append and takes no slice,
\* and is no list of records; the one entry marks it
NotAList ==
    <<[timestamp |-> 0, code |-> "<dict>", output |-> Absent, stdout |-> Absent,
       stderr |-> Absent,
       error |-> [type |-> Absent, message |-> Absent, traceback |-> Absent],
       success |-> FALSE]>>

\* what a write of the file comes to: done, refused by open(), cut short
WriteOutcomes == {"ok", "open_failed", "partial"}

\* _load_history that never reads the file
LoadHistoryEmpty(f) == <<>>

\* _load_history
LoadHistory(f) ==
    CASE f.kind = "array" -> f.recs
      [] f.kind = "object" -> NotAList
      [] OTHER -> <<>>

\* _load_history without its try: json.load's error leaves the constructor
LoadRaisedNoExcept(f) == IF f.kind = "garbage" THEN "JSONDecodeError" ELSE Absent

\* what escapes _load_history: the bare except of line 77 lets nothing out
LoadRaised(f) == Absent

\* _save_history without the [-1000:]: the whole list is written
SaveHistoryAll(h, f, w) ==
    CASE w = "ok" -> ArrayFile(h)
      [] w = "open_failed" -> f
      [] OTHER -> GarbageFile

\* _save_history with [-1001:]
SaveHistoryOffByOne(h, f, w) ==
    CASE w = "ok" -> ArrayFile(SliceFrom(h, -(HistoryCap + 1)))
      [] w = "open_failed" -> f
      [] OTHER -> GarbageFile

\* _save_history: the file after it, the write ending as w; the slice of a dict
\* raises after open() has emptied the file, and line 86 catches that
SaveHistory(h, f, w) ==
    CASE w = "open_failed" -> f
      [] w = "ok" /\ h # NotAList -> ArrayFile(SliceFrom(h, -HistoryCap))
      [] OTHER -> GarbageFile

\* a record a previous session left in the file: the k-th before this session
OldRecord(k) ==
    [timestamp |-> 0 - k, code |-> "old", output |-> Absent, stdout |-> Absent,
     stderr |-> Absent, error |-> AbsentError, success |-> TRUE]

\* the file a previous session left with its n last records
OldFile(n) == ArrayFile([i \in 1..n |-> OldRecord(n - i)])

\* no record: the call returned none
NoRecord ==
    [timestamp |-> 0, code |-> Absent, output |-> Absent, stdout |-> Absent,
     stderr |-> Absent, error |-> AbsentError, success |-> FALSE]

\* code: the text execute was given; runs: how often its code was started; out, err:
\* what it wrote to the two streams; fault: how it ended; write: how the write of
\* the file ended; limit: the limit get_history was given
NoProbe ==
    [code |-> Absent, runs |-> 0, out |-> "", err |-> "", fault |-> NoFault,
     write |-> "none", limit |-> 0 - 1]

----------------------------------------------------------------------------
(* The namespace *)

EmptyNamespace == [n \in Names |-> Unbound]

\* _init_namespace: exec(import_code, self.namespace)
InitNamespace(ns) ==
    [ns EXCEPT !["sys"] = VModSys,
               !["__builtins__"] = IF @ = Unbound THEN VBuiltins ELSE @]

\* the namespace __init__ builds, lines 23-29
NewNamespace ==
    InitNamespace([EmptyNamespace EXCEPT !["__name__"] = VMain,
                                         !["__builtins__"] = VBuiltins])

----------------------------------------------------------------------------
(* execute *)

\* execute that puts the namespace back as it was when the code raises
RunSnippetRollback(s, ns) ==
    LET r1 == Eval(s, Start(ns))
        r == IF r1.fault = "SyntaxError"
             THEN [phase2 |-> TRUE,
                   st |-> Exec(s, [r1 EXCEPT !.fault = NoFault, !.msg = ""])]
             ELSE [phase2 |-> FALSE, st |-> r1]
    IN  IF r.st.fault = NoFault THEN r ELSE [r EXCEPT !.st.ns = ns]

\* execute without lines 115-118: eval only
RunSnippetEvalOnly(s, ns) == [phase2 |-> FALSE, st |-> Eval(s, Start(ns))]

\* lines 107-118: eval first; on a SyntaxError, whoever raised it, exec
RunSnippet(s, ns) ==
    LET r1 == Eval(s, Start(ns))
    IN  IF r1.fault = "SyntaxError"
        THEN [phase2 |-> TRUE, st |-> Exec(s, [r1 EXCEPT !.fault = NoFault, !.msg = ""])]
        ELSE [phase2 |-> FALSE, st |-> r1]

\* the text of a captured stream as the record keeps it, lines 124-127
Captured(text) == IF text # "" THEN text ELSE Absent

\* lines 97-105: the record as execute first builds it
BlankRecord(code, ts) ==
    [timestamp |-> ts, code |-> code, output |-> Absent, stdout |-> Absent,
     stderr |-> Absent, error |-> AbsentError, success |-> FALSE]

\* line 113 without its test for None: output is always repr(output)
DoneRecordAlwaysOutput(base, run) ==
    [base EXCEPT
        !.output = IF ~run.phase2 THEN Repr(run.st.val) ELSE Absent,
        !.success = TRUE,
        !.stdout = Captured(run.st.out),
        !.stderr = Captured(run.st.err)]

\* lines 112-127: the record of a run that ended without fault
DoneRecord(base, run) ==
    [base EXCEPT
        !.output = IF ~run.phase2 /\ run.st.val # VNone THEN Repr(run.st.val) ELSE Absent,
        !.success = TRUE,
        !.stdout = Captured(run.st.out),
        !.stderr = Captured(run.st.err)]

\* the except branch without its line 135, success having been set before the fault
FailedRecordSuccess(base, run) ==
    [base EXCEPT !.error = ErrorDict(run.st.fault, run.st.msg), !.success = TRUE]

\* lines 129-135: the record of a run that an Exception ended
FailedRecord(base, run) ==
    [base EXCEPT !.error = ErrorDict(run.st.fault, run.st.msg), !.success = FALSE]

\* lines 97-135
MakeRecord(s, ts, run) ==
    IF run.st.fault = NoFault THEN DoneRecord(BlankRecord(s.code, ts), run)
    ELSE FailedRecord(BlankRecord(s.code, ts), run)

\* execute whose _save_history has no try: a failed write leaves execute as OSError
ExecuteSaveRaises(s, w) ==
    /\ clock < MaxExec
    /\ LET run == RunSnippet(s, namespace)
           rec == MakeRecord(s, clock + 1, run)
       IN  /\ namespace' = run.st.ns
           /\ clock' = clock + 1
           /\ lastOp' = "execute"
           /\ listing' = <<>>
           /\ probe' = [NoProbe EXCEPT !.code = s.code, !.runs = run.st.runs, !.out = run.st.out,
                                       !.err = run.st.err, !.fault = run.st.fault,
                                       !.write = IF run.st.fault \in BaseOnlyKinds
                                                 THEN "none" ELSE w]
           /\ IF run.st.fault \in BaseOnlyKinds
              THEN /\ raised' = run.st.fault
                   /\ result' = NoRecord
                   /\ UNCHANGED <<history, file>>
              ELSE /\ raised' = IF w = "ok" THEN Absent ELSE "OSError"
                   /\ result' = IF w = "ok" THEN rec ELSE NoRecord
                   /\ history' = Append(history, rec)
                   /\ file' = SaveHistory(history', file, w)
    /\ UNCHANGED <<closed, loop>>

\* execute(code), the write of the file ending as w; line 138 raises
\* AttributeError when self.history is no list
Execute(s, w) ==
    /\ clock < MaxExec
    /\ LET run == RunSnippet(s, namespace)
           rec == MakeRecord(s, clock + 1, run)
           left == run.st.fault \in BaseOnlyKinds \/ history = NotAList
       IN  /\ namespace' = run.st.ns
           /\ clock' = clock + 1
           /\ lastOp' = "execute"
           /\ listing' = <<>>
           /\ probe' = [NoProbe EXCEPT !.code = s.code, !.runs = run.st.runs, !.out = run.st.out,
                                       !.err = run.st.err, !.fault = run.st.fault,
                                       !.write = IF left THEN "none" ELSE w]
           /\ IF left
              THEN /\ raised' = IF run.st.fault \in BaseOnlyKinds
                                THEN run.st.fault ELSE "AttributeError"
                   /\ result' = NoRecord
                   /\ UNCHANGED <<history, file>>
              ELSE /\ raised' = Absent
                   /\ result' = rec
                   /\ history' = Append(history, rec)
                   /\ file' = SaveHistory(history', file, w)
    /\ UNCHANGED <<closed, loop>>

\* get_history that takes the records it returns out of the list
GetHistoryPops(limit) ==
    /\ listing' = SliceFrom(history, 0 - limit)
    /\ history' = SubSeq(history, 1, Len(history) - Len(listing'))
    /\ lastOp' = "get_history"
    /\ result' = NoRecord
    /\ raised' = Absent
    /\ probe' = [NoProbe EXCEPT !.limit = limit]
    /\ UNCHANGED <<namespace, file, clock, closed, loop>>

\* what a slice of a dict raises: TypeError, KeyError from Python 3.12 on
SliceFaults == {"TypeError", "KeyError"}

\* get_history(limit)
GetHistory(limit) ==
    /\ listing' = IF history = NotAList THEN <<>> ELSE SliceFrom(history, 0 - limit)
    /\ lastOp' = "get_history"
    /\ result' = NoRecord
    /\ IF history = NotAList THEN raised' \in SliceFaults ELSE raised' = Absent
    /\ probe' = [NoProbe EXCEPT !.limit = limit]
    /\ UNCHANGED <<namespace, history, file, clock, closed, loop>>

\* clear_history that also empties the namespace
ClearHistoryAndNamespace ==
    /\ history' = <<>>
    /\ file' = IF file.kind # "absent" THEN AbsentFile ELSE file
    /\ namespace' = InitNamespace(EmptyNamespace)
    /\ lastOp' = "clear_history"
    /\ result' = NoRecord
    /\ listing' = <<>>
    /\ raised' = Absent
    /\ probe' = NoProbe
    /\ UNCHANGED <<clock, closed, loop>>

\* clear_history that leaves the file where it is
ClearHistoryKeepsFile ==
    /\ history' = <<>>
    /\ lastOp' = "clear_history"
    /\ result' = NoRecord
    /\ listing' = <<>>
    /\ raised' = Absent
    /\ probe' = NoProbe
    /\ UNCHANGED <<file, namespace, clock, closed, loop>>

\* clear_history
ClearHistory ==
    /\ history' = <<>>
    /\ file' = IF file.kind # "absent" THEN AbsentFile ELSE file
    /\ lastOp' = "clear_history"
    /\ result' = NoRecord
    /\ listing' = <<>>
    /\ raised' = Absent
    /\ probe' = NoProbe
    /\ UNCHANGED <<namespace, clock, closed, loop>>

\* reset_namespace without the clear(): the seeds are put back over what is bound
ResetNamespaceKeeps ==
    /\ namespace' = InitNamespace(namespace)
    /\ lastOp' = "reset_namespace"
    /\ result' = NoRecord
    /\ listing' = <<>>
    /\ raised' = Absent
    /\ probe' = NoProbe
    /\ UNCHANGED <<history, file, clock, closed, loop>>

\* reset_namespace
ResetNamespace ==
    /\ namespace' = InitNamespace(EmptyNamespace)
    /\ lastOp' = "reset_namespace"
    /\ result' = NoRecord
    /\ listing' = <<>>
    /\ raised' = Absent
    /\ probe' = NoProbe
    /\ UNCHANGED <<history, file, clock, closed, loop>>

\* cleanup, the write of the file ending as w
Cleanup(w) ==
    /\ file' = SaveHistory(history, file, w)
    /\ closed' = TRUE
    /\ lastOp' = "cleanup"
    /\ result' = NoRecord
    /\ listing' = <<>>
    /\ raised' = Absent
    /\ probe' = [NoProbe EXCEPT !.write = w]
    /\ UNCHANGED <<namespace, history, clock, loop>>

----------------------------------------------------------------------------
(* The agent from a fresh install, every write succeeding *)

Tasks == 1..MaxTasks

\* a handler that has not been started
IdleTask ==
    [kind |-> "none", pc |-> "idle", code |-> Absent, ts |-> 0, old |-> 0,
     out |-> "", err |-> "", wrote |-> "", rec |-> NoRecord, ret |-> <<>>]

\* __init__ on the file f
Construct(f) ==
    /\ tasks = [t \in Tasks |-> IdleTask]
    /\ running = 0
    /\ target = 0
    /\ file = f
    /\ history = LoadHistory(f)
    /\ namespace = NewNamespace
    /\ clock = 0
    /\ lastOp = "init"
    /\ result = NoRecord
    /\ listing = <<>>
    /\ raised = LoadRaised(f)
    /\ probe = NoProbe
    /\ closed = FALSE

Limits == {0, MaxLimit, DefaultLimit}

Init == Construct(AbsentFile)

Next ==
    \/ \E s \in Snippets : Execute(s, "ok")
    \/ \E limit \in Limits : GetHistory(limit)
    \/ ClearHistory
    \/ ResetNamespace
    \/ Cleanup("ok")

Spec == Init /\ [][Next]_vars

----------------------------------------------------------------------------
(* The agent started on the file of a previous session, writes failing or not *)

CapSnippets == {s \in Snippets : s.code \in {"x = 1", "1/0", "raise SystemExit"}}

\* the lengths of the file a previous session left: none, one short of the cap, the cap
OldLengths == {0, HistoryCap - 1, HistoryCap}

InitCap == \E n \in OldLengths : Construct(OldFile(n))

NextCap ==
    \/ \E s \in CapSnippets, w \in WriteOutcomes : clock < MaxCapExec /\ Execute(s, w)
    \/ \E limit \in Limits : GetHistory(limit)
    \/ ClearHistory
    \/ ResetNamespace
    \/ \E w \in WriteOutcomes : Cleanup(w)

SpecCap == InitCap /\ [][NextCap]_vars

----------------------------------------------------------------------------
(* The agent over restarts of the process: each start constructs a new agent   *)
(* on the file as the last one left it, or as a cut-short write left it.       *)

\* a text of blanks only: eval strips them and finds nothing, exec runs nothing
Blank == [code |-> "  ", expr |-> FALSE, stmt |-> TRUE, ops |-> <<>>]

LoadSnippets == {s \in Snippets : s.code \in {"x = 1", ""}} \cup {Blank}

\* the files the first agent may find
FirstFiles == {AbsentFile, GarbageFile, OldFile(HistoryCap)}

\* the process starts again: lifespan constructs a new PythonAgent on the file
Restart ==
    /\ history' = LoadHistory(file)
    /\ namespace' = NewNamespace
    /\ lastOp' = "restart"
    /\ result' = NoRecord
    /\ listing' = <<>>
    /\ raised' = LoadRaised(file)
    /\ probe' = NoProbe
    /\ closed' = FALSE
    /\ UNCHANGED <<file, clock, loop>>

InitLoad == \E f \in FirstFiles : Construct(f)

NextLoad ==
    \/ \E s \in LoadSnippets, w \in WriteOutcomes : clock < MaxCapExec /\ Execute(s, w)
    \/ GetHistory(DefaultLimit)
    \/ ClearHistory
    \/ ResetNamespace
    \/ \E w \in WriteOutcomes : Cleanup(w)
    \/ Restart

SpecLoad == InitLoad /\ [][NextLoad]_vars

----------------------------------------------------------------------------
(* The agent on whatever the file holds when the process starts *)

FileSnippets == {s \in Snippets : s.code \in {"x = 1", "x"}}

\* the contents the file may have: none, unparsable, an array, no array
FileContents == {AbsentFile, GarbageFile, OldFile(1), ObjectFile}

InitFile == \E f \in FileContents : Construct(f)

NextFile ==
    \/ \E s \in FileSnippets : clock < MaxCapExec /\ Execute(s, "ok")
    \/ GetHistory(DefaultLimit)
    \/ ClearHistory
    \/ Cleanup("ok")
    \/ Restart

SpecFile == InitFile /\ [][NextFile]_vars

----------------------------------------------------------------------------
(* The agent and the names user code binds and deletes *)

\* user code may delete a seeded name, this one included
DelBuiltins ==
    [code |-> "del __builtins__", expr |-> FALSE, stmt |-> TRUE,
     ops |-> <<Op("del", "__builtins__", "")>>]

NameSnippets ==
    {s \in Snippets : s.code \in {"x = 1", "x", "", "x ="}} \cup {Blank, DelBuiltins}

NextNames ==
    \/ \E s \in NameSnippets : Execute(s, "ok")
    \/ GetHistory(DefaultLimit)
    \/ ClearHistory
    \/ ResetNamespace

SpecNames == Init /\ [][NextNames]_vars

----------------------------------------------------------------------------
(* The endpoints of main.py: several requests on one asyncio event loop.      *)
(* A coroutine keeps the loop until it awaits something that is not ready or  *)
(* returns; execute and get_history hold no such await.                       *)

ConcSnippets == {s \in Snippets : s.code \in {"x = 1", "print('a')"}}

\* execute with an await between redirecting the streams and running the code
SuspendsAfterCapture(pc) == pc \in {"json", "capture", "done"}

\* where a handler gives the loop back: at await request.json() and at its return
Suspends(pc) == pc \in {"json", "done"}

\* the loop is free, or already running t
Runs(t) == running \in {0, t}

\* t moves to pc and keeps the loop unless it suspends there
Goes(t, pc) == running' = IF Suspends(pc) THEN 0 ELSE t

\* execute_python_code up to await request.json()
StartExecute(t, s) ==
    /\ Runs(t)
    /\ tasks[t].pc = "idle"
    /\ tasks' = [tasks EXCEPT ![t].kind = "execute", ![t].pc = "json", ![t].code = s.code]
    /\ Goes(t, "json")
    /\ UNCHANGED <<namespace, history, file, clock, target, caller>>

\* the body has come; execute is called, takes its timestamp and redirects the streams
EnterExecute(t) ==
    /\ Runs(t)
    /\ tasks[t].pc = "json"
    /\ clock' = clock + 1
    /\ tasks' = [tasks EXCEPT ![t].pc = "capture", ![t].ts = clock + 1, ![t].old = target]
    /\ target' = t
    /\ Goes(t, "capture")
    /\ UNCHANGED <<namespace, history, file, caller>>

\* the snippet runs: what it writes goes to the StringIO that is sys.stdout then;
\* the streams are put back and the record is made of this call's own StringIO
RunCode(t) ==
    /\ Runs(t)
    /\ tasks[t].pc = "capture"
    /\ LET s == SnippetOf(tasks[t].code)
           run == RunSnippet(s, namespace)
           written == IF target = 0 THEN tasks
                      ELSE [tasks EXCEPT ![target].out = @ \o run.st.out,
                                         ![target].err = @ \o run.st.err]
           own == [run EXCEPT !.st.out = written[t].out, !.st.err = written[t].err]
       IN  /\ namespace' = run.st.ns
           /\ tasks' = [written EXCEPT ![t].pc = "ran", ![t].wrote = run.st.out,
                                       ![t].rec = MakeRecord(s, tasks[t].ts, own)]
    /\ target' = tasks[t].old
    /\ Goes(t, "ran")
    /\ UNCHANGED <<history, file, clock, caller>>

\* self.history.append(result)
AppendRecord(t) ==
    /\ Runs(t)
    /\ tasks[t].pc = "ran"
    /\ history' = Append(history, tasks[t].rec)
    /\ tasks' = [tasks EXCEPT ![t].pc = "appended"]
    /\ Goes(t, "appended")
    /\ UNCHANGED <<namespace, file, clock, target, caller>>

\* self._save_history(), and the record goes back to the client
SaveReturn(t) ==
    /\ Runs(t)
    /\ tasks[t].pc = "appended"
    /\ file' = SaveHistory(history, file, "ok")
    /\ tasks' = [tasks EXCEPT ![t].pc = "done"]
    /\ Goes(t, "done")
    /\ UNCHANGED <<namespace, history, clock, target, caller>>

\* get_agent_history: get_history() with the default limit
ServeHistory(t) ==
    /\ Runs(t)
    /\ tasks[t].pc = "idle"
    /\ tasks' = [tasks EXCEPT ![t].kind = "history", ![t].pc = "done",
                              ![t].ret = SliceFrom(history, 0 - DefaultLimit)]
    /\ Goes(t, "done")
    /\ UNCHANGED <<namespace, history, file, clock, target, caller>>

NextConc ==
    \/ \E t \in Tasks, s \in ConcSnippets : StartExecute(t, s)
    \/ \E t \in Tasks : EnterExecute(t)
    \/ \E t \in Tasks : RunCode(t)
    \/ \E t \in Tasks : AppendRecord(t)
    \/ \E t \in Tasks : SaveReturn(t)
    \/ \E t \in Tasks : ServeHistory(t)

SpecConc == Init /\ [][NextConc]_vars

----------------------------------------------------------------------------
(* Properties *)

Min(a, b) == IF a < b THEN a ELSE b

\* seq's last records, as many as k allows, in their order
IsTailOf(part, seq, k) ==
    /\ Len(part) = Min(k, Len(seq))
    /\ \A i \in 1..Len(part) : part[i] = seq[Len(seq) - Len(part) + i]

\* C1: after an execute whose write succeeded, the file holds the last
\* min(n, 1000) records of the n records in memory, oldest first
C1_FileHoldsLastRecords ==
    (lastOp = "execute" /\ raised = Absent /\ probe.write = "ok") =>
        /\ file.kind = "array"
        /\ IsTailOf(file.recs, history, HistoryCap)

\* 1001 records in memory, 1000 in the file, the oldest one dropped
C1_Witness ==
    /\ lastOp = "execute" /\ probe.write = "ok"
    /\ Len(history) = HistoryCap + 1
    /\ Len(file.recs) = HistoryCap
    /\ file.recs[1] = history[2]
    /\ file.recs[HistoryCap] = result

\* C2: get_history(limit) returns the last min(limit, n) records, oldest first,
\* for every limit >= 0, limit = 0 included
C2_HistoryReturnsLastLimit ==
    (lastOp = "get_history" /\ probe.limit >= 0) =>
        IsTailOf(listing, history, probe.limit)

\* C3: a call that is neither execute nor reset_namespace leaves the namespace as
\* it is, and an execute reads the bindings the namespace holds when it starts
C3_NamespacePersists ==
    [][/\ lastOp' \in {"get_history", "clear_history", "cleanup"} =>
              namespace' = namespace
       /\ (lastOp' = "execute" /\ probe'.code = "x" /\ namespace["x"] # Unbound) =>
              /\ result'.success
              /\ result'.output = Repr(namespace["x"])]_vars

\* x bound by the first execute, clear_history and cleanup called, x read by the second
C3_Witness ==
    /\ lastOp = "execute" /\ result.code = "x" /\ result.output = "1"
    /\ clock = 2 /\ Len(history) = 1 /\ closed

\* C4: a snippet that compiles as an expression and raises, whatever it raises,
\* is run once and gives a failed record with its error
C4_ExpressionRunsOnce ==
    (lastOp = "execute" /\ SnippetOf(probe.code).expr /\ probe.fault # NoFault) =>
        /\ probe.runs = 1
        /\ ~result.success
        /\ result.error # AbsentError

RecordShapes(r) ==
    {k \in {"output", "plain", "error"} :
        \/ k = "output" /\ r.output # Absent /\ r.success /\ r.error = AbsentError
        \/ k = "plain" /\ r.output = Absent /\ r.success /\ r.error = AbsentError
        \/ k = "error" /\ r.output = Absent /\ ~r.success /\ r.error # AbsentError}

\* C5: every record, returned or in the history, has exactly one of the three
\* shapes, and none has success with an error
C5_RecordShape ==
    /\ \A i \in DOMAIN history :
          /\ Cardinality(RecordShapes(history[i])) = 1
          /\ ~(history[i].success /\ history[i].error # AbsentError)
    /\ (lastOp = "execute" /\ raised = Absent) =>
          /\ Cardinality(RecordShapes(result)) = 1
          /\ ~(result.success /\ result.error # AbsentError)

\* a history with a record of each shape, the last one just returned
C5_Witness ==
    /\ lastOp = "execute" /\ Len(history) = 3 /\ result = history[3]
    /\ RecordShapes(history[1]) = {"plain"}
    /\ RecordShapes(history[2]) = {"output"}
    /\ RecordShapes(history[3]) = {"error"}

\* C6: the record's stdout and stderr are what the snippet wrote, absent when it
\* wrote nothing, whatever the outcome
C6_StreamsRecorded ==
    (lastOp = "execute" /\ raised = Absent) =>
        /\ result.stdout = (IF probe.out = "" THEN Absent ELSE probe.out)
        /\ result.stderr = (IF probe.err = "" THEN Absent ELSE probe.err)

\* the handlers that are between redirecting the streams and having saved
InExecute == {t \in Tasks : tasks[t].pc \in {"capture", "ran", "appended"}}

\* C7: while one execute is between redirecting the streams and having appended
\* and saved its record, no other handler takes a step; every record's stdout is
\* what its own snippet wrote; and what get_history returned is in the file
C7_ExecuteAtomic ==
    /\ [](/\ \A t \in InExecute : running = t
          /\ \A t \in Tasks :
                tasks[t].pc \in {"ran", "appended", "done"} /\ tasks[t].kind = "execute" =>
                    tasks[t].rec.stdout =
                        (IF tasks[t].wrote = "" THEN Absent ELSE tasks[t].wrote)
          /\ \A t \in Tasks :
                tasks[t].kind = "history" =>
                    /\ Len(tasks[t].ret) <= Len(file.recs)
                    /\ \A i \in DOMAIN tasks[t].ret : tasks[t].ret[i] = file.recs[i])
    /\ [][\A t \in InExecute : \A u \in Tasks \ {t} : tasks'[u] = tasks[u]]_vars

\* two executes were issued together, both are done, and a get_history was served
\* while an execute was waiting for its request body
C7_Witness ==
    /\ \E t, u \in Tasks :
          /\ t # u
          /\ tasks[t].kind = "execute" /\ tasks[t].pc = "done"
          /\ tasks[u].kind = "execute" /\ tasks[u].pc = "done"
          /\ tasks[t].rec.stdout = "a\n" /\ tasks[u].rec.stdout = Absent
          /\ tasks[t].ts < tasks[u].ts
    /\ \E v \in Tasks : tasks[v].kind = "history" /\ Len(tasks[v].ret) = 1

\* C8: after clear_history the history is empty and the file is gone, a
\* get_history right after it returns nothing, and a second clear_history in a
\* row raises nothing and changes nothing
C8_ClearHistory ==
    /\ [](lastOp = "clear_history" =>
              history = <<>> /\ file.kind = "absent" /\ raised = Absent)
    /\ [][/\ (lastOp = "clear_history" /\ lastOp' = "get_history") => listing' = <<>>
          /\ (lastOp = "clear_history" /\ lastOp' = "clear_history") =>
                UNCHANGED <<history, file, namespace>>]_vars

\* clear_history on a session that had records in memory and a file
C8_Witness ==
    /\ lastOp = "clear_history" /\ clock > 0
    /\ history = <<>> /\ file.kind = "absent"

\* the texts that bind x
BindsX == {s.code : s \in {s \in Snippets : \E i \in DOMAIN s.ops :
                                s.ops[i].op = "bind" /\ s.ops[i].a = "x"}}

\* C9: reset_namespace unbinds the names user code bound; reading one of them
\* fails with a NameError until an execute binds it again
C9_ResetUnbinds ==
    /\ [](lastOp = "reset_namespace" => namespace["x"] = Unbound)
    /\ [][/\ (namespace["x"] = Unbound /\ lastOp' = "execute" /\ probe'.code = "x") =>
                /\ ~result'.success
                /\ result'.error.type = "NameError"
          /\ (namespace["x"] = Unbound /\ namespace'["x"] # Unbound) =>
                (lastOp' = "execute" /\ probe'.code \in BindsX)]_vars

\* x was bound by an execute, and a later execute that reads it fails
C9_Witness ==
    /\ lastOp = "execute" /\ result.code = "x" /\ result.error.type = "NameError"
    /\ \E i \in DOMAIN history : history[i].code = "x = 1" /\ history[i].success

\* C10: once cleanup has been called, execute, get_history, clear_history and
\* reset_namespace fail with a lifecycle violation and change nothing
C10_ClosedRejects ==
    [][(closed /\ lastOp' \in {"execute", "get_history", "clear_history",
                               "reset_namespace"}) =>
            /\ raised' = "LifecycleViolation"
            /\ UNCHANGED <<namespace, history, file>>]_vars

\* C11: the first cleanup writes the history; a cleanup after it writes nothing
\* and leaves the file as it is
C11_FlushedOnce ==
    [][(closed /\ lastOp' = "cleanup") =>
            /\ probe'.write = "none"
            /\ file' = file]_vars

\* C12: no fault of the executed code leaves execute: a record comes back, and
\* when the code raised, it has success = false and the error's type, message
\* and traceback
C12_NoFaultEscapes ==
    lastOp = "execute" =>
        /\ raised = Absent
        /\ result.code = probe.code
        /\ probe.fault # NoFault =>
              /\ ~result.success
              /\ result.error.type = probe.fault
              /\ result.error.message # Absent
              /\ result.error.traceback # Absent

\* the write outcomes that are failures
FailedWrites == WriteOutcomes \ {"ok"}

\* C13: a write that fails aborts neither execute nor cleanup: execute returns
\* its record and the record is in memory, cleanup leaves the memory as it is,
\* get_history returns what is in memory, and the next write that succeeds
\* puts the records of the memory into the file
C13_WriteFailureContained ==
    [][/\ probe'.write \in FailedWrites =>
              /\ raised' = Absent
              /\ lastOp' = "execute" =>
                    (result'.code = probe'.code /\ history' = Append(history, result'))
              /\ lastOp' = "cleanup" => history' = history
       /\ (lastOp' = "get_history" /\ probe'.limit = DefaultLimit) =>
              IsTailOf(listing', history, DefaultLimit)
       /\ probe'.write = "ok" =>
              (file'.kind = "array" /\ IsTailOf(file'.recs, history', HistoryCap))]_vars

\* an execute whose write was cut short: the file is unreadable, the record is
\* returned and is the last one in memory
C13_Witness ==
    /\ lastOp = "execute" /\ probe.write = "partial" /\ raised = Absent
    /\ file.kind = "garbage"
    /\ history # <<>> /\ history[Len(history)] = result

\* C14: constructing the agent raises nothing; on a missing or unparsable file
\* the agent starts open with an empty history
C14_LoadNeverRaises ==
    lastOp \in {"init", "restart"} =>
        /\ raised = Absent
        /\ ~closed
        /\ file.kind \in {"absent", "garbage"} => history = <<>>

\* an agent constructed on the file a cut-short write of this program left
C14_Witness ==
    /\ lastOp = "restart" /\ clock > 0
    /\ file.kind = "garbage" /\ history = <<>> /\ raised = Absent

\* C15: the history in memory never holds more than 1000 records
C15_HistoryWithinCap == Len(history) <= HistoryCap

\* C15 as amended: the file the agent writes never holds more than 1000 records,
\* and the history a constructor loads holds at most 1000
C15_FileWithinCap ==
    /\ file.kind = "array" => Len(file.recs) <= HistoryCap
    /\ lastOp = "init" => Len(history) <= HistoryCap

\* 1002 records in memory, 1000 of them in the file
C15_Witness ==
    /\ Len(history) = HistoryCap + 2
    /\ file.kind = "array" /\ Len(file.recs) = HistoryCap

\* what repr gives for the value of the expression code in the namespace ns,
\* Absent for a value of None
ValueText(code, ns) ==
    IF code = "x" THEN (IF ns["x"] = VInt1 THEN "1" ELSE "2") ELSE Absent

\* C16: a text that is an expression and evaluates without fault gives success
\* and the text of its value as output, no output when the value is None; a text
\* that is no expression and runs as statements without fault gives success and
\* no output
C16_OutcomeClassified ==
    (lastOp = "execute" /\ probe.fault = NoFault) =>
        /\ result.success
        /\ result.error = AbsentError
        /\ result.output = (IF SnippetOf(probe.code).expr
                            THEN ValueText(probe.code, namespace) ELSE Absent)

\* a statement bound x to 2, the expression x gave "2", and an expression whose
\* value is None gave no output
C16_Witness ==
    /\ lastOp = "execute" /\ Len(history) = 3
    /\ history[1].code = "x = 2; print('a'); 1/0"
    /\ history[2].code = "x" /\ history[2].output = "2" /\ history[2].success
    /\ result.code = "print('e', file=sys.stderr)" /\ result.success
    /\ result.output = Absent

\* C17: an agent constructed after a cleanup whose write succeeded starts with
\* the last min(n, 1000) records of the n the previous agent had, in their order;
\* one constructed when the previous agent's history was empty, as it is from a
\* clear_history until the next execute, starts with an empty history
C17_HistorySurvivesRestart ==
    [][lastOp' = "restart" =>
            /\ (lastOp = "cleanup" /\ probe.write = "ok") =>
                  IsTailOf(history', history, HistoryCap)
            /\ history = <<>> => history' = <<>>]_vars

\* a restart on the file of an agent that had 1001 records: 1000 are loaded,
\* the oldest is gone and the newest is the record of this program's execute
C17_Witness ==
    /\ lastOp = "restart" /\ Len(history) = HistoryCap
    /\ history[1] = OldRecord(HistoryCap - 2)
    /\ history[HistoryCap].code = "x = 1"

\* C18: every execute appends one record to the history, the record it returns,
\* with the text it was given, and leaves the earlier records as they are
C18_ExecuteAppendsOne ==
    [][lastOp' = "execute" =>
            /\ history' = Append(history, result')
            /\ result'.code = probe'.code]_vars

\* the text that rebinds x and then raises
BindThenRaise == "x = 2; print('a'); 1/0"

\* C19: a snippet that binds a name and then raises leaves the binding in the
\* namespace, and its record has success = false
C19_FaultKeepsBindings ==
    (lastOp = "execute" /\ probe.code = BindThenRaise) =>
        /\ namespace["x"] = VInt2
        /\ ~result.success
        /\ result.error.type = "ZeroDivisionError"

\* x was 1, the failed snippet rebound it to 2, and the next execute reads 2
C19_Witness ==
    /\ lastOp = "execute" /\ Len(history) = 3
    /\ history[1].code = "x = 1"
    /\ history[2].code = BindThenRaise /\ ~history[2].success
    /\ result.code = "x" /\ result.output = "2"

\* the namespace after eval or exec was handed it: __builtins__ is bound
WithBuiltins(ns) ==
    [ns EXCEPT !["__builtins__"] = IF @ = Unbound THEN VBuiltins ELSE @]

\* C20: execute of an empty text or of blanks raises nothing, returns and
\* appends a record with success and nothing else set, and leaves the namespace
\* as it was
C20_EmptyCodeSucceeds ==
    /\ []((lastOp = "execute" /\ probe.code \in {"", "  "}) =>
              /\ raised = Absent
              /\ result = [NoRecord EXCEPT !.timestamp = result.timestamp,
                                           !.code = probe.code, !.success = TRUE]
              /\ history # <<>> /\ history[Len(history)] = result)
    /\ [][(lastOp' = "execute" /\ probe'.code \in {"", "  "}) =>
              namespace' = namespace]_vars

\* C20 as amended: execute of an empty text or of blanks raises nothing, returns
\* and appends a record with success and nothing else set, and leaves every
\* binding as it was, but for __builtins__, which is bound again when user code
\* had deleted it
C20_EmptyCodeKeepsBindings ==
    /\ []((lastOp = "execute" /\ probe.code \in {"", "  "}) =>
              /\ raised = Absent
              /\ probe.runs = 1
              /\ result = [NoRecord EXCEPT !.timestamp = result.timestamp,
                                           !.code = probe.code, !.success = TRUE]
              /\ history # <<>> /\ history[Len(history)] = result)
    /\ [][(lastOp' = "execute" /\ probe'.code \in {"", "  "}) =>
              namespace' = WithBuiltins(namespace)]_vars

\* x bound, __builtins__ deleted, then blanks executed: x is as it was,
\* __builtins__ is back, the record follows the one of the deletion
C20_Witness ==
    /\ lastOp = "execute" /\ probe.code = "  " /\ result.success
    /\ namespace["x"] = VInt1 /\ namespace["__builtins__"] = VBuiltins
    /\ Len(history) = 3 /\ history[1].code = "x = 1"
    /\ history[2].code = "del __builtins__" /\ history[2].success

\* C21: get_history leaves the history, the file and the namespace as they
\* were; reset_namespace leaves the history and the file; clear_history leaves
\* the namespace
C21_FrameConditions ==
    [][/\ lastOp' = "get_history" =>
              (history' = history /\ file' = file /\ namespace' = namespace)
       /\ lastOp' = "reset_namespace" => (history' = history /\ file' = file)
       /\ lastOp' = "clear_history" => namespace' = namespace]_vars

\* get_history(1) on two records, both in the file, x bound: one record
\* returned, nothing changed
C21_Witness ==
    /\ lastOp = "get_history" /\ probe.limit = MaxLimit
    /\ Len(history) = 2 /\ listing = <<history[2]>>
    /\ file = ArrayFile(history)
    /\ namespace["x"] = VInt2

\* the names a namespace binds
BoundNames(ns) == {n \in Names : ns[n] # Unbound}

\* C22: after reset_namespace the names bound are the names bound right after
\* the construction, no more and no fewer
C22_ResetRestoresSeeds ==
    lastOp = "reset_namespace" => BoundNames(namespace) = BoundNames(NewNamespace)

\* C23: the file clear_history removed stays absent over get_history,
\* reset_namespace and cleanup: only an execute creates it again.  The agent
\* having started on a file, an absent file is one clear_history removed.
C23_FileStaysAbsent ==
    [][(file.kind = "absent"
            /\ lastOp' \in {"get_history", "reset_namespace", "cleanup"}) =>
        file'.kind = "absent"]_vars

\* the texts that compile neither as an expression nor as statements
NoCode == {s \in NameSnippets : ~s.expr /\ ~s.stmt}

\* C24: a text that compiles neither way goes through both phases, runs no user
\* code, leaves the namespace as it was, and gives a record, returned and
\* appended, with success = false and a SyntaxError; execute raises nothing
C24_SyntaxErrorRecorded ==
    /\ [](\A s \in NoCode : (lastOp = "execute" /\ probe.code = s.code) =>
              /\ raised = Absent
              /\ probe.runs = 0
              /\ ~result.success
              /\ result.error.type = "SyntaxError"
              /\ history # <<>> /\ history[Len(history)] = result)
    /\ [][\A s \in NoCode : (lastOp' = "execute" /\ probe'.code = s.code) =>
              /\ RunSnippet(s, namespace).phase2
              /\ namespace' = namespace]_vars

\* C24 as amended: the same, the namespace keeping every binding it had, but
\* for __builtins__, which is bound again when user code had deleted it
C24_SyntaxErrorKeepsBindings ==
    /\ [](\A s \in NoCode : (lastOp = "execute" /\ probe.code = s.code) =>
              /\ raised = Absent
              /\ probe.runs = 0
              /\ ~result.success
              /\ result.error.type = "SyntaxError"
              /\ result.output = Absent
              /\ history # <<>> /\ history[Len(history)] = result)
    /\ [][\A s \in NoCode : (lastOp' = "execute" /\ probe'.code = s.code) =>
              /\ RunSnippet(s, namespace).phase2
              /\ namespace' = WithBuiltins(namespace)
              /\ history' = Append(history, result')]_vars

\* x bound, __builtins__ deleted, then a text that does not compile: a
\* SyntaxError record, x as it was, __builtins__ back
C24_Witness ==
    /\ lastOp = "execute" /\ probe.code = "x =" /\ ~result.success
    /\ result.error.type = "SyntaxError"
    /\ namespace["x"] = VInt1 /\ namespace["__builtins__"] = VBuiltins
    /\ Len(history) = 3 /\ history[2].code = "del __builtins__"

\* C25: whatever the file held at the construction, the first execute after it
\* raises nothing and appends the record it returns
C25_FirstExecuteAppends ==
    [][(lastOp \in {"init", "restart"} /\ lastOp' = "execute") =>
            /\ raised' = Absent
            /\ result'.code = probe'.code
            /\ history' = Append(history, result')]_vars

====
